---- MODULE Spec2Model ----
(***************************************************************************)
(* Model of the image curation scripts of mushroom-tracker-data-cdn:       *)
(*   scripts/image_quality_scorer.py   ImageQualityScorer                  *)
(*   scripts/artifact_detector.py      ArtifactDetector                    *)
(*   scripts/fix_thumbnails.py         ThumbnailFixer                      *)
(*   scripts/replace_poor_images.py    ImageReplacer                       *)
(*   scripts/replace_artifact_images.py ArtifactImageReplacer              *)
(*                                                                         *)
(* Numbers.  The scripts compute with floats; the model computes the same  *)
(* expressions exactly, on integers:                                       *)
(*   - a ratio (0..1) is held in thousandths (0..1000);                    *)
(*   - a sub-score (0..100) is held multiplied by Scale, which every       *)
(*     divisor of the normalisations divides, so no division truncates;    *)
(*   - int(round(x)) is Python 3's round-half-to-even.                     *)
(***************************************************************************)
EXTENDS Integers, Sequences, FiniteSets, TLC

Min(a, b) == IF a <= b THEN a ELSE b
Max(a, b) == IF a >= b THEN a ELSE b

\* every normalisation divides by 1000, 40, 70, 3000 or 5 (ratio*200, ratio in
\* thousandths); Scale makes each quotient an integer
Scale == 2 * 3 * 5 * 7

\* int(round(n / d)) for n >= 0, d > 0: round half to even
PyRound(n, d) ==
  LET q == n \div d
      r == n % d
  IN  IF 2 * r < d THEN q
      ELSE IF 2 * r > d THEN q + 1
      ELSE IF q % 2 = 0 THEN q ELSE q + 1

(***************************************************************************)
(* ImageQualityScorer                                                      *)
(***************************************************************************)
BLUR_THRESHOLD == 100
MIN_BRIGHTNESS == 40
MAX_BRIGHTNESS == 215
MIN_CONTRAST == 30

calculate_blur_score(image) ==
  LET laplacian_var == image.blur
  IN  [score |-> laplacian_var,
       rating |-> IF laplacian_var > 500 THEN "excellent"
                  ELSE IF laplacian_var > 200 THEN "good"
                  ELSE IF laplacian_var > BLUR_THRESHOLD THEN "fair"
                  ELSE "poor"]

\* faulty variant: the upper brightness limit taken one level too high
calculate_brightness_contrast_wide(image) ==
  LET mean_brightness == image.mean_brightness
      contrast == image.contrast
  IN  [mean_brightness |-> mean_brightness,
       brightness_rating |->
         IF MIN_BRIGHTNESS <= mean_brightness /\ mean_brightness <= MAX_BRIGHTNESS + 1
           THEN "good"
         ELSE IF mean_brightness < MIN_BRIGHTNESS THEN "too_dark"
         ELSE "too_bright",
       contrast |-> contrast,
       contrast_rating |-> IF contrast > 50 THEN "excellent"
                           ELSE IF contrast > MIN_CONTRAST THEN "good"
                           ELSE "poor"]

calculate_brightness_contrast(image) ==
  LET mean_brightness == image.mean_brightness
      contrast == image.contrast
  IN  [mean_brightness |-> mean_brightness,
       brightness_rating |->
         IF MIN_BRIGHTNESS <= mean_brightness /\ mean_brightness <= MAX_BRIGHTNESS
           THEN "good"
         ELSE IF mean_brightness < MIN_BRIGHTNESS THEN "too_dark"
         ELSE "too_bright",
       contrast |-> contrast,
       contrast_rating |-> IF contrast > 50 THEN "excellent"
                           ELSE IF contrast > MIN_CONTRAST THEN "good"
                           ELSE "poor"]

calculate_color_distribution(image) ==
  LET color_variance == image.color_variance
  IN  [color_variance |-> color_variance,
       rating |-> IF color_variance > 2000 THEN "excellent"
                  ELSE IF color_variance > 1000 THEN "good"
                  ELSE IF color_variance > 500 THEN "fair"
                  ELSE "poor"]

\* faulty variant: "fair" up to a half-white image
detect_white_regions_lenient(image) ==
  LET white_pixel_ratio == image.white_ratio
  IN  [white_pixel_ratio |-> white_pixel_ratio,
       rating |-> IF white_pixel_ratio < 100 THEN "good"
                  ELSE IF white_pixel_ratio < 500 THEN "fair"
                  ELSE "poor"]

\* white_pixel_ratio in thousandths: 0.1 is 100, 0.25 is 250
detect_white_regions(image) ==
  LET white_pixel_ratio == image.white_ratio
  IN  [white_pixel_ratio |-> white_pixel_ratio,
       rating |-> IF white_pixel_ratio < 100 THEN "good"
                  ELSE IF white_pixel_ratio < 250 THEN "fair"
                  ELSE "poor"]

\* the four sub-scores, each multiplied by Scale
blur_score(metrics) ==
  Min(100 * Scale, (metrics.blur.score * 100 * Scale) \div 1000)

brightness_score(metrics) ==
  LET brightness == metrics.brightness.mean_brightness
  IN  IF MIN_BRIGHTNESS <= brightness /\ brightness <= MAX_BRIGHTNESS
        THEN 100 * Scale
      ELSE IF brightness < MIN_BRIGHTNESS
        THEN Max(0, (brightness * 100 * Scale) \div MIN_BRIGHTNESS)
      ELSE Max(0, 100 * Scale - ((brightness - MAX_BRIGHTNESS) * 100 * Scale) \div 40)

contrast_score(metrics) ==
  Min(100 * Scale, (metrics.brightness.contrast * 100 * Scale) \div 70)

\* faulty variant: the colour sub-score not capped at 100
color_score_uncapped(metrics) ==
  (metrics.color.color_variance * 100 * Scale) \div 3000

color_score(metrics) ==
  Min(100 * Scale, (metrics.color.color_variance * 100 * Scale) \div 3000)

\* faulty variant: more white scores higher
white_score_rising(metrics) ==
  Min(100 * Scale, (metrics.white_regions.white_pixel_ratio * Scale) \div 5)

\* ratio * 200 with the ratio in thousandths is ratio / 5
white_score(metrics) ==
  Max(0, 100 * Scale - (metrics.white_regions.white_pixel_ratio * Scale) \div 5)

\* the weighted sum times 40 * Scale: the weights 0.35, 0.25 * 0.5 (twice),
\* 0.25 and 0.15 are 14, 5, 5, 10 and 6 fortieths
overall_numerator(metrics) ==
    14 * blur_score(metrics)
  + 5 * brightness_score(metrics) + 5 * contrast_score(metrics)
  + 10 * color_score(metrics)
  + 6 * white_score(metrics)

calculate_overall_score(metrics) ==
  PyRound(overall_numerator(metrics), 40 * Scale)

\* faulty variant: an unreadable image scored as a blank one
analyze_image_blank(image) ==
  LET metrics == [blur |-> calculate_blur_score(image),
                  brightness |-> calculate_brightness_contrast(image),
                  color |-> calculate_color_distribution(image),
                  white_regions |-> detect_white_regions(image)]
  IN  [metrics |-> metrics, overall_score |-> calculate_overall_score(metrics)]

analyze_image(image) ==
  IF ~image.readable THEN [error |-> "Failed to load image"]
  ELSE LET metrics == [blur |-> calculate_blur_score(image),
                       brightness |-> calculate_brightness_contrast(image),
                       color |-> calculate_color_distribution(image),
                       white_regions |-> detect_white_regions(image)]
       IN  [metrics |-> metrics,
            overall_score |-> calculate_overall_score(metrics)]

(***************************************************************************)
(* ArtifactDetector                                                        *)
(***************************************************************************)
\* the additive rules, in the order of the code; ratios in thousandths
\* faulty variant: the second tier tested with "if" instead of "elif"
WhiteRule_both(image) ==
  (IF image.white_ratio > 250
     THEN <<[points |-> 30, flag |-> "HIGH white regions"]>> ELSE <<>>)
  \o (IF image.white_ratio > 150
        THEN <<[points |-> 15, flag |-> "MODERATE white regions"]>> ELSE <<>>)

\* faulty variant: the two tiers' points exchanged
WhiteRule_swapped(image) ==
  IF image.white_ratio > 250 THEN <<[points |-> 15, flag |-> "HIGH white regions"]>>
  ELSE IF image.white_ratio > 150
    THEN <<[points |-> 30, flag |-> "MODERATE white regions"]>>
  ELSE <<>>

WhiteRule(image) ==
  IF image.white_ratio > 250 THEN <<[points |-> 30, flag |-> "HIGH white regions"]>>
  ELSE IF image.white_ratio > 150
    THEN <<[points |-> 15, flag |-> "MODERATE white regions"]>>
  ELSE <<>>

\* faulty variant: a ratio of exactly 0.1 fires the rule
ExtremeRule_inclusive(image) ==
  IF image.extreme_white_ratio >= 100
    THEN <<[points |-> 20, flag |-> "Extreme brightness"]>> ELSE <<>>

ExtremeRule(image) ==
  IF image.extreme_white_ratio > 100
    THEN <<[points |-> 20, flag |-> "Extreme brightness"]>> ELSE <<>>

SaturationRule(image) ==
  IF image.low_sat_ratio > 400
    THEN <<[points |-> 20, flag |-> "Low saturation"]>> ELSE <<>>

LinesRule(image) ==
  IF image.line_count > 20
    THEN <<[points |-> 15, flag |-> "Many straight lines (ruler/paper?)"]>> ELSE <<>>

UniformRule(image) ==
  IF image.uniform_ratio > 500
    THEN <<[points |-> 10, flag |-> "Uniform background"]>> ELSE <<>>

ColorRule(image) ==
  IF image.color_variance < 500
    THEN <<[points |-> 10, flag |-> "Limited colors"]>> ELSE <<>>

FiredRules(image) ==
  WhiteRule(image) \o ExtremeRule(image) \o SaturationRule(image)
    \o LinesRule(image) \o UniformRule(image) \o ColorRule(image)

RECURSIVE SumPoints(_)
SumPoints(rules) ==
  IF rules = <<>> THEN 0 ELSE Head(rules).points + SumPoints(Tail(rules))

\* faulty variant: the cap forgotten
CapScore_uncapped(raw) == raw

\* "artifact_score": min(artifact_score, 100)
CapScore(raw) == Min(raw, 100)

detect_artifacts(image) ==
  IF ~image.readable THEN [error |-> "Failed to load image"]
  ELSE LET fired == FiredRules(image)
       IN  [artifact_score |-> CapScore(SumPoints(fired)),
            flags |-> [i \in 1..Len(fired) |-> fired[i].flag]]

(***************************************************************************)
(* State                                                                   *)
(***************************************************************************)
VARIABLES
  img,              \* scorer: the decoded pixel grid's statistics (or unreadable)
  quality_result,   \* scorer: what analyze_image returned
  artifact_result,  \* scorer: what detect_artifacts returned
  spc,              \* scorer: "idle", "start", "analyzed", "done", "rescored"
  script,           \* which script runs: "thumb", "poor", "artifact" ("none": scorer)
  dry_run,          \* self.dry_run
  cache,            \* rows of mo_dataset_cache.csv for the species, in file order
  analysis,         \* analyze_image's overall_score of each catalogued file (-1: error)
  files,            \* species/<id>/<name>: the catalogued files
  backups,          \* species/<id>/<name>.backup
  metadata,         \* species/<id>/metadata.json
  count,            \* self.fixed_count / self.replaced_count
  pending,          \* the work items run() has not handed to the operation yet
  last,             \* the last call: its inputs, ranking, decision and return value
  detection,        \* detect_artifacts' artifact_score of each catalogued file (-1: error)
  min_artifact_score, \* scan_all_images' argument
  report            \* what scan_all_images returned

svars == <<img, quality_result, artifact_result, spc>>
wvars == <<script, dry_run, cache, analysis, files, backups, metadata, count,
           pending, last>>
dvars == <<detection, min_artifact_score, report>>
vars == <<svars, wvars, dvars>>

(***************************************************************************)
(* The scorer and detector on one image: scan_all_images calls             *)
(* analyze_image and then detect_artifacts on each file.                   *)
(***************************************************************************)
BlurVals == {0, 100, 101, 200, 201, 500, 501, 1000, 2500}
BrightnessVals == {0, 20, 39, 40, 215, 216, 235, 255}
ContrastVals == {0, 30, 31, 50, 51, 70, 127}
ColorVals == {0, 499, 500, 501, 1000, 1001, 2000, 2001, 3000, 9000}
WhiteVals == {0, 99, 100, 150, 151, 249, 250, 251, 500, 1000}
ExtremeVals == {0, 100, 101, 1000}
SaturationVals == {0, 400, 401, 1000}
LineVals == {0, 20, 21}
UniformVals == {0, 500, 501, 1000}

\* images that sweep the inputs of calculate_overall_score
QualityImages ==
  { [readable |-> TRUE, blur |-> s, mean_brightness |-> b, contrast |-> c,
     color_variance |-> v, white_ratio |-> w, extreme_white_ratio |-> 0,
     low_sat_ratio |-> 0, line_count |-> 0, uniform_ratio |-> 0] :
    s \in BlurVals, b \in BrightnessVals, c \in ContrastVals, v \in ColorVals,
    w \in WhiteVals }

\* images that sweep the inputs of the artifact rules; the pixels above 240 are
\* among the pixels above 220
ArtifactImages ==
  { i \in
    { [readable |-> TRUE, blur |-> 500, mean_brightness |-> 215, contrast |-> 50,
     color_variance |-> v, white_ratio |-> w, extreme_white_ratio |-> e,
     low_sat_ratio |-> ls, line_count |-> n, uniform_ratio |-> u] :
      v \in ColorVals, w \in WhiteVals, e \in ExtremeVals,
      ls \in SaturationVals, n \in LineVals, u \in UniformVals } :
    i.extreme_white_ratio <= i.white_ratio }

\* cv2.imread returned None
UnreadableImage ==
  [readable |-> FALSE, blur |-> 0, mean_brightness |-> 0, contrast |-> 0,
   color_variance |-> 0, white_ratio |-> 0, extreme_white_ratio |-> 0,
   low_sat_ratio |-> 0, line_count |-> 0, uniform_ratio |-> 0]

NoResult == [none |-> TRUE]

(***************************************************************************)
(* The catalogue of one species and the cache rows of its scientific name  *)
(***************************************************************************)
\* the most cache rows the species has
MaxCands == 2

FileNames == {"thumb.webp", "image_0.webp", "image_1.webp"}
ImageName(idx) == IF idx = 0 THEN "image_0.webp" ELSE "image_1.webp"

\* A file's content is named by where it came from: src < 0 is the catalogue's
\* original file, src = i > 0 is row i of the cache; thumb: resized to a thumbnail.
NoFile == [exists |-> FALSE, src |-> 0, thumb |-> FALSE]
OrigFile(name) ==
  [exists |-> TRUE,
   src |-> IF name = "thumb.webp" THEN -3 ELSE IF name = "image_0.webp" THEN -1 ELSE -2,
   thumb |-> name = "thumb.webp"]

\* hashlib.sha256 of a file: equal exactly for equal contents
calculate_sha256(content) == content

\* metadata.json: it may fail to load, and its "images" list may be short
OrigEntry(idx) ==
  [source_url |-> OrigFile(ImageName(idx)).src,
   sha256 |-> calculate_sha256(OrigFile(ImageName(idx)))]
Metadata(loadable, n) ==
  [loadable |-> loadable, images |-> [i \in 1..n |-> OrigEntry(i - 1)],
   last_updated |-> 0]

\* What evaluating a cache row's image yields: its recency, whether download and
\* decode succeed, and its two scores.
CandidatePool ==
  { [created |-> 1, ok |-> TRUE, quality_score |-> 80, artifact_score |-> 10],
    [created |-> 1, ok |-> TRUE, quality_score |-> 40, artifact_score |-> 45],
    [created |-> 2, ok |-> TRUE, quality_score |-> 40, artifact_score |-> 45],
    [created |-> 1, ok |-> TRUE, quality_score |-> 45, artifact_score |-> 50],
    [created |-> 2, ok |-> FALSE, quality_score |-> 0, artifact_score |-> 0] }

Row(i, p) ==
  [image |-> i, created |-> p.created, ok |-> p.ok,
   quality_score |-> p.quality_score, artifact_score |-> p.artifact_score]

Caches ==
  UNION { { [i \in 1..n |-> Row(i, f[i])] : f \in [1..n -> CandidatePool] } :
          n \in 0..MaxCands }

\* the scores the operations are called with
PoorCurrent == {39, 40}
ArtifactCurrent == {55, 56}
CurrentQuality == {30, 90}

\* analyze_image of the catalogued files: -1 is an error result (no overall_score)
ThumbAnalyses == {50, 60}
ImageAnalyses == {-1, 0, 50, 59, 60, 70}

\* process_image / create_thumbnail: it succeeds, or it fails before or after
\* the output file was written; after a success update_metadata may still fail
\* (its except branch returns False)
WriteOutcomes == {"ok", "ok_meta_failed", "failed", "failed_written"}

NoCand ==
  [image |-> 0, created |-> 0, quality_score |-> 0, artifact_score |-> 0,
   combined_score |-> 0]
NoLast ==
  [op |-> "none", idx |-> 0, current |-> 0, current_quality |-> 0,
   ranked |-> <<>>, found |-> FALSE, best |-> NoCand, best_name |-> "",
   improvement |-> 0, improvement_quality |-> 0, gate |-> "none", ret |-> FALSE]

(***************************************************************************)
(* Ranking: list.sort(key=..., reverse=True) is stable, so rows with equal *)
(* keys keep the order they were appended in.                              *)
(***************************************************************************)
Take(seq, n) == SubSeq(seq, 1, Min(n, Len(seq)))

\* keys[i] is the sort key of seq[i].  The place of seq[i] after a stable
\* descending sort: behind the greater keys and the equal keys before it
SortedPlace(keys, i) ==
    Cardinality({j \in 1..Len(keys) : keys[j] > keys[i]})
  + Cardinality({j \in 1..(i - 1) : keys[j] = keys[i]}) + 1

\* sorted ascending and then reversed: equal keys end in reverse input order
ReversedPlace(keys, i) ==
    Cardinality({j \in 1..Len(keys) : keys[j] > keys[i]})
  + Cardinality({j \in (i + 1)..Len(keys) : keys[j] = keys[i]}) + 1

SortDescending(seq, keys) ==
  [p \in 1..Len(seq) |-> seq[CHOOSE i \in 1..Len(seq) : SortedPlace(keys, i) = p]]

(***************************************************************************)
(* Writing a replacement: backup, write, restore or commit.  The same code *)
(* closes fix_thumbnail and both find_and_replace_image.                   *)
(***************************************************************************)
\* shutil.copy2(path, backup_path) if the target exists
BackedUp(name) ==
  IF files[name].exists THEN [backups EXCEPT ![name] = files[name]] ELSE backups

\* faulty variant: the backup not copied back
WriteFailed_unrestored(name, new_content, written) ==
  [files |-> [files EXCEPT ![name] = IF written THEN new_content ELSE files[name]],
   backups |-> BackedUp(name), metadata |-> metadata, count |-> count, ret |-> FALSE]

\* the writer returned no data: restore the backup if there is one, return False
WriteFailed(name, new_content, written) ==
  LET backed == BackedUp(name)
      left == IF written THEN new_content ELSE files[name]
  IN  [files |-> [files EXCEPT ![name] =
                    IF backed[name].exists THEN backed[name] ELSE left],
       backups |-> backed, metadata |-> metadata, count |-> count, ret |-> FALSE]

\* the writer returned data: metadata as update_metadata left it (its result is
\* only printed), backup unlinked, counter bumped
WriteCommitted(name, new_content, meta_after) ==
  [files |-> [files EXCEPT ![name] = new_content],
   backups |-> [BackedUp(name) EXCEPT ![name] = NoFile],
   metadata |-> meta_after, count |-> count + 1, ret |-> TRUE]

\* faulty variant: the counter bumped before the decision
Untouched_counted(ret) ==
  [files |-> files, backups |-> backups, metadata |-> metadata, count |-> count + 1,
   ret |-> ret]

\* faulty variant: a dry run that stamps metadata.json, as update_metadata would
\* without its "if not self.dry_run" guard
Untouched_stamped(ret) ==
  [files |-> files, backups |-> backups,
   metadata |-> IF dry_run /\ ret THEN [metadata EXCEPT !.last_updated = @ + 1]
                ELSE metadata,
   count |-> count, ret |-> ret]

\* a call that returns before it writes anything
Untouched(ret) ==
  [files |-> files, backups |-> backups, metadata |-> metadata, count |-> count,
   ret |-> ret]

(***************************************************************************)
(* ThumbnailFixer                                                          *)
(***************************************************************************)
FileOrder == <<"thumb.webp", "image_0.webp", "image_1.webp">>

\* the files that exist and whose analysis has an overall_score, in dict order
score_species_images ==
  SelectSeq([i \in 1..3 |-> [name |-> FileOrder[i], score |-> analysis[FileOrder[i]]]],
            LAMBDA r : files[r.name].exists /\ r.score >= 0)

\* faulty variant: the running best starts below every score
InitialBestScore_below == 0 - 1

\* best_score = 0 before the loop
InitialBestScore == 0

\* faulty variant: the thumbnail not excluded
IsBetter_any(r, best_score) == r.score > best_score

\* img_name != "thumb.webp" and data["score"] > best_score
IsBetter(r, best_score) == r.name # "thumb.webp" /\ r.score > best_score

RECURSIVE BestLoop(_, _)
BestLoop(scores, best) ==
  IF scores = <<>> THEN best
  ELSE BestLoop(Tail(scores),
                IF IsBetter(Head(scores), best.score) THEN Head(scores) ELSE best)

\* scores.get("thumb.webp", {}).get("score", 0)
ThumbScore(scores) ==
  IF \E i \in 1..Len(scores) : scores[i].name = "thumb.webp"
    THEN scores[CHOOSE i \in 1..Len(scores) : scores[i].name = "thumb.webp"].score
    ELSE 0

find_best_image ==
  LET scores == score_species_images
      best == BestLoop(scores, [name |-> "", score |-> InitialBestScore])
      thumb_score == ThumbScore(scores)
  IN  IF scores = <<>> \/ best.name = ""
        THEN [found |-> FALSE, current_thumb_score |-> 0, best_image |-> "",
              best_score |-> 0, improvement |-> 0]
        ELSE [found |-> TRUE, current_thumb_score |-> thumb_score,
              best_image |-> best.name, best_score |-> best.score,
              improvement |-> best.score - thumb_score]

\* faulty variant: the gate of the comment, "(>10 points)"
ThumbGate_strict(improvement) == improvement > 10

\* "if improvement < 10: ... return False"
ThumbGate(improvement) == ~(improvement < 10)

\* source_index = int(source_image.split('_')[1].split('.')[0])
SourceIndex(name) == IF name = "image_0.webp" THEN 0 ELSE 1

\* ThumbnailFixer.update_metadata: only last_updated changes
ThumbMetadata(source_image) ==
  IF metadata.loadable /\ SourceIndex(source_image) < Len(metadata.images)
    THEN [metadata EXCEPT !.last_updated = @ + 1]
    ELSE metadata

\* best["improvement"] >= min_improvement, for the one species of the model
find_species_needing_fixes(min_improvement) ==
  LET best == find_best_image
  IN  IF best.found /\ best.improvement >= min_improvement
        THEN <<[improvement |-> best.improvement,
                current_score |-> best.current_thumb_score,
                new_score |-> best.best_score]>>
        ELSE <<>>

ThumbCall(best, gate, ret) ==
  [op |-> "fix_thumbnail", idx |-> 0, current |-> best.current_thumb_score,
   current_quality |-> best.current_thumb_score, ranked |-> <<>>,
   found |-> best.found,
   best |-> IF best.found
              THEN [NoCand EXCEPT !.image = SourceIndex(best.best_image),
                                  !.quality_score = best.best_score]
              ELSE NoCand,
   best_name |-> best.best_image,
   improvement |-> best.improvement, improvement_quality |-> best.improvement,
   gate |-> gate, ret |-> ret]

fix_thumbnail(outcome) ==
  LET best == find_best_image
      new_thumb == [exists |-> TRUE, src |-> files[best.best_image].src, thumb |-> TRUE]
      gate == IF ~best.found THEN "none"
              ELSE IF ThumbGate(best.improvement) THEN "pass" ELSE "reject"
      eff == IF gate # "pass" THEN Untouched(FALSE)
             ELSE IF dry_run THEN Untouched(TRUE)
             ELSE IF outcome = "ok"
               THEN WriteCommitted("thumb.webp", new_thumb,
                                   ThumbMetadata(best.best_image))
             ELSE IF outcome = "ok_meta_failed"
               THEN WriteCommitted("thumb.webp", new_thumb, metadata)
             ELSE WriteFailed("thumb.webp", new_thumb, outcome = "failed_written")
  IN  /\ files' = eff.files
      /\ backups' = eff.backups
      /\ metadata' = eff.metadata
      /\ count' = eff.count
      /\ last' = ThumbCall(best, gate, eff.ret)

FixThumbnail ==
  /\ script = "thumb"
  /\ 0 \in pending
  /\ \E outcome \in WriteOutcomes : fix_thumbnail(outcome)
  /\ pending' = pending \ {0}
  /\ UNCHANGED <<script, dry_run, cache, analysis, svars, dvars>>

(***************************************************************************)
(* ImageReplacer (replace_poor_images.py)                                  *)
(***************************************************************************)
\* "for i, record in enumerate(records[:10], 1)"
POOR_WINDOW == 10

\* faulty variant: the loop given up at the first candidate that fails
RECURSIVE UntilFailure(_)
UntilFailure(rows) ==
  IF rows = <<>> \/ ~Head(rows).ok THEN <<>>
  ELSE <<Head(rows)>> \o UntilFailure(Tail(rows))
PoorScored_abort(records) ==
  LET kept == UntilFailure(Take(records, POOR_WINDOW))
  IN  [i \in 1..Len(kept) |->
         [image |-> kept[i].image, created |-> kept[i].created,
          quality_score |-> kept[i].quality_score, artifact_score |-> 0,
          combined_score |-> 0]]

\* faulty variant: every record of the species scored, not the first 10
PoorScored_whole(records) ==
  LET kept == SelectSeq(records, LAMBDA r : r.ok)
  IN  [i \in 1..Len(kept) |->
         [image |-> kept[i].image, created |-> kept[i].created,
          quality_score |-> kept[i].quality_score, artifact_score |-> 0,
          combined_score |-> 0]]

\* download_and_score_image, merged into the record: None drops the row.  The
\* poor-image workflow scores quality alone; the artifact fields stay unset (0).
PoorScored(records) ==
  LET window == Take(records, POOR_WINDOW)
      kept == SelectSeq(window, LAMBDA r : r.ok)
  IN  [i \in 1..Len(kept) |->
         [image |-> kept[i].image, created |-> kept[i].created,
          quality_score |-> kept[i].quality_score, artifact_score |-> 0,
          combined_score |-> 0]]

\* faulty variant: sorted ascending and reversed, which reverses ties
PoorRanked_reversed(scored) ==
  LET keys == [i \in 1..Len(scored) |-> scored[i].quality_score]
  IN  [p \in 1..Len(scored) |->
         scored[CHOOSE i \in 1..Len(scored) : ReversedPlace(keys, i) = p]]

\* scored_candidates.sort(key=lambda x: x['score'], reverse=True)
PoorRanked(scored) ==
  SortDescending(scored, [i \in 1..Len(scored) |-> scored[i].quality_score])

\* faulty variant: an equal score accepted
PoorGate_equal(best, current_score) == best.quality_score >= current_score

\* "if best['score'] <= current_score: ... return False"
PoorGate(best, current_score) == ~(best.quality_score <= current_score)

\* the improvement printed: best['score'] - current_score
PoorImprovement(best, current_score) == best.quality_score - current_score

\* process_image's output for a cache row
Processed(best) == [exists |-> TRUE, src |-> best.image, thumb |-> FALSE]

\* update_metadata: images[image_index] takes the row's source and the new hash
ReplacedMetadata(image_index, new_content, source_record) ==
  IF metadata.loadable /\ image_index < Len(metadata.images)
    THEN [metadata EXCEPT
            !.images[image_index + 1] =
               [source_url |-> source_record.image,
                sha256 |-> calculate_sha256(new_content)],
            !.last_updated = @ + 1]
    ELSE metadata

PoorCall(image_index, current_score, ranked, gate, ret) ==
  LET found == ranked # <<>>
      best == IF found THEN Head(ranked) ELSE NoCand
      improvement == IF found THEN PoorImprovement(best, current_score) ELSE 0
  IN  [op |-> "replace_poor", idx |-> image_index, current |-> current_score,
       current_quality |-> current_score, ranked |-> ranked, found |-> found,
       best |-> best, best_name |-> "", improvement |-> improvement,
       improvement_quality |-> improvement, gate |-> gate, ret |-> ret]

poor_find_and_replace_image(image_index, current_score, outcome) ==
  LET records == cache
      scored == IF metadata.loadable /\ records # <<>> THEN PoorScored(records) ELSE <<>>
  IN  \E ranked \in {PoorRanked(scored)} :
        LET best == Head(ranked)
            gate == IF ranked = <<>> THEN "none"
                    ELSE IF PoorGate(best, current_score) THEN "pass" ELSE "reject"
            name == ImageName(image_index)
            written == IF gate # "pass" THEN Untouched(FALSE)
                       ELSE IF dry_run THEN Untouched(TRUE)
                       ELSE IF outcome = "ok"
                         THEN WriteCommitted(name, Processed(best),
                                ReplacedMetadata(image_index, Processed(best), best))
                       ELSE IF outcome = "ok_meta_failed"
                         THEN WriteCommitted(name, Processed(best), metadata)
                       ELSE WriteFailed(name, Processed(best), outcome = "failed_written")
        IN  \E eff \in {written} :
              /\ files' = eff.files
              /\ backups' = eff.backups
              /\ metadata' = eff.metadata
              /\ count' = eff.count
              /\ last' = PoorCall(image_index, current_score, ranked, gate, eff.ret)

FindAndReplacePoor ==
  /\ script = "poor"
  /\ \E image_index \in pending, current_score \in PoorCurrent,
        outcome \in WriteOutcomes :
       /\ poor_find_and_replace_image(image_index, current_score, outcome)
       /\ pending' = pending \ {image_index}
  /\ UNCHANGED <<script, dry_run, cache, analysis, svars, dvars>>

(***************************************************************************)
(* ArtifactImageReplacer (replace_artifact_images.py)                      *)
(***************************************************************************)
\* "for i, record in enumerate(records[:15], 1)"
ARTIFACT_WINDOW == 15

\* combined_score = (100 - result['artifact_score']) + result['quality_score']
CombinedScore(result) == (100 - result.artifact_score) + result.quality_score

\* download_and_evaluate_image, merged into the record with its combined score
ArtifactScored(records) ==
  LET window == Take(records, ARTIFACT_WINDOW)
      kept == SelectSeq(window, LAMBDA r : r.ok)
  IN  [i \in 1..Len(kept) |->
         [image |-> kept[i].image, created |-> kept[i].created,
          quality_score |-> kept[i].quality_score,
          artifact_score |-> kept[i].artifact_score,
          combined_score |-> CombinedScore(kept[i])]]

\* faulty variant: reverse=True forgotten
ArtifactRanked_ascending(scored) ==
  SortDescending(scored, [i \in 1..Len(scored) |-> 0 - scored[i].combined_score])

\* scored_candidates.sort(key=lambda x: x['combined_score'], reverse=True)
ArtifactRanked(scored) ==
  SortDescending(scored, [i \in 1..Len(scored) |-> scored[i].combined_score])

\* faulty variant: the candidate must also be of fair quality
ArtifactGate_quality(best, current_artifact_score) ==
  ~(best.artifact_score >= current_artifact_score - 10) /\ best.quality_score >= 60

\* faulty variant: a reduction of exactly 10 accepted
ArtifactGate_inclusive(best, current_artifact_score) ==
  best.artifact_score <= current_artifact_score - 10

\* "if best['artifact_score'] >= current_artifact_score - 10: ... return False"
ArtifactGate(best, current_artifact_score) ==
  ~(best.artifact_score >= current_artifact_score - 10)

\* faulty variant: the difference taken the other way round
ImprovementArtifact_flipped(best, current_artifact_score) ==
  best.artifact_score - current_artifact_score

\* improvement_artifact = current_artifact_score - best['artifact_score']
ImprovementArtifact(best, current_artifact_score) ==
  current_artifact_score - best.artifact_score

\* improvement_quality = best['quality_score'] - current_quality
ImprovementQuality(best, current_quality) == best.quality_score - current_quality

ArtifactCall(image_index, current_score, current_quality, ranked, gate, ret) ==
  LET found == ranked # <<>>
      best == IF found THEN Head(ranked) ELSE NoCand
  IN  [op |-> "replace_artifact", idx |-> image_index,
       current |-> current_score, current_quality |-> current_quality,
       ranked |-> ranked, found |-> found, best |-> best, best_name |-> "",
       improvement |->
         IF found THEN ImprovementArtifact(best, current_score) ELSE 0,
       improvement_quality |->
         IF found THEN ImprovementQuality(best, current_quality) ELSE 0,
       gate |-> gate, ret |-> ret]

artifact_find_and_replace_image(image_index, current_score, current_quality, outcome) ==
  LET records == cache
      scored == IF metadata.loadable /\ records # <<>>
                  THEN ArtifactScored(records) ELSE <<>>
  IN  \E ranked \in {ArtifactRanked(scored)} :
        LET best == Head(ranked)
            gate == IF ranked = <<>> THEN "none"
                    ELSE IF ArtifactGate(best, current_score) THEN "pass"
                    ELSE "reject"
            name == ImageName(image_index)
            written == IF gate # "pass" THEN Untouched(FALSE)
                       ELSE IF dry_run THEN Untouched(TRUE)
                       ELSE IF outcome = "ok"
                         THEN WriteCommitted(name, Processed(best),
                                ReplacedMetadata(image_index, Processed(best), best))
                       ELSE IF outcome = "ok_meta_failed"
                         THEN WriteCommitted(name, Processed(best), metadata)
                       ELSE WriteFailed(name, Processed(best), outcome = "failed_written")
        IN  \E eff \in {written} :
              /\ files' = eff.files
              /\ backups' = eff.backups
              /\ metadata' = eff.metadata
              /\ count' = eff.count
              /\ last' = ArtifactCall(image_index, current_score, current_quality,
                                      ranked, gate, eff.ret)

FindAndReplaceArtifact ==
  /\ script = "artifact"
  /\ \E image_index \in pending, current_artifact_score \in ArtifactCurrent,
        current_quality \in CurrentQuality, outcome \in WriteOutcomes :
       /\ artifact_find_and_replace_image(image_index, current_artifact_score,
                                          current_quality, outcome)
       /\ pending' = pending \ {image_index}
  /\ UNCHANGED <<script, dry_run, cache, analysis, svars, dvars>>

(***************************************************************************)
(* The curation scripts: one script runs on the catalogue of one species   *)
(***************************************************************************)
IdleScorer ==
  /\ img = UnreadableImage
  /\ quality_result = NoResult
  /\ artifact_result = NoResult
  /\ spc = "idle"

Existence(present) ==
  [name \in FileNames |-> IF name \in present THEN OrigFile(name) ELSE NoFile]

InitThumb ==
  /\ script = "thumb"
  /\ cache = <<>>
  /\ \E present \in SUBSET FileNames : files = Existence(present)
  /\ analysis \in
       { a \in [FileNames -> ThumbAnalyses \cup ImageAnalyses] :
           /\ a["thumb.webp"] \in ThumbAnalyses
           /\ \A name \in FileNames : ~files[name].exists => a[name] = -1
           /\ \A name \in FileNames \ {"thumb.webp"} : a[name] \in ImageAnalyses }
  /\ metadata \in {Metadata(TRUE, 2), Metadata(TRUE, 1), Metadata(FALSE, 0)}
  /\ pending = {0}

\* caches one row longer than a window: the rows inside the window are all
\* mediocre or all fail, and the row behind them is the best the pool has
LongCache(n, filler, final) ==
  [i \in 1..n |-> Row(i, IF i = n THEN final ELSE filler)]
LongCaches ==
  { LongCache(n, filler,
              [created |-> 1, ok |-> TRUE, quality_score |-> 80, artifact_score |-> 10]) :
      n \in {POOR_WINDOW + 1, ARTIFACT_WINDOW + 1},
      filler \in {[created |-> 1, ok |-> TRUE, quality_score |-> 40,
                     artifact_score |-> 45],
                    [created |-> 2, ok |-> FALSE, quality_score |-> 0,
                     artifact_score |-> 0]} }

InitReplace ==
  /\ script \in {"poor", "artifact"}
  /\ cache \in Caches \cup LongCaches
  /\ \E present \in { FileNames, FileNames \ {"image_1.webp"} } :
       files = Existence(present)
  /\ analysis = [name \in FileNames |-> -1]
  /\ metadata \in {Metadata(TRUE, 2), Metadata(TRUE, 1), Metadata(FALSE, 0)}
  /\ pending = {0, 1}

\* no scan has been asked for
IdleScan ==
  /\ detection = [name \in FileNames |-> 0 - 1]
  /\ min_artifact_score = 0
  /\ report = <<>>

Init ==
  /\ IdleScorer
  /\ IdleScan
  /\ dry_run \in BOOLEAN
  /\ backups = [name \in FileNames |-> NoFile]
  /\ count = 0
  /\ last = NoLast
  /\ InitThumb \/ InitReplace

\* run() before its loop: in a dry run it lists the work and returns; otherwise
\* it asks, and any answer but "y" cancels.  No operation has been called.
RunReturns ==
  /\ last = NoLast
  /\ pending # {}
  /\ \E response \in {"y", "n"} : dry_run \/ response # "y"
  /\ pending' = {}
  /\ UNCHANGED <<script, dry_run, cache, analysis, files, backups, metadata, count,
                 last, svars, dvars>>

Next == RunReturns \/ FixThumbnail \/ FindAndReplacePoor \/ FindAndReplaceArtifact

Spec == Init /\ [][Next]_vars

(***************************************************************************)
(* The scoring scripts: analyze_image, then detect_artifacts, on one image *)
(***************************************************************************)
IdleCatalogue ==
  /\ script = "none"
  /\ dry_run = FALSE
  /\ cache = <<>>
  /\ analysis = [name \in FileNames |-> -1]
  /\ files = Existence({})
  /\ backups = [name \in FileNames |-> NoFile]
  /\ metadata = Metadata(FALSE, 0)
  /\ count = 0
  /\ pending = {}
  /\ last = NoLast

InitScore ==
  /\ IdleCatalogue
  /\ IdleScan
  /\ img \in QualityImages \cup ArtifactImages \cup {UnreadableImage}
  /\ quality_result = NoResult
  /\ artifact_result = NoResult
  /\ spc = "start"

AnalyzeImage ==
  /\ spc = "start"
  /\ quality_result' = analyze_image(img)
  /\ spc' = "analyzed"
  /\ UNCHANGED <<img, artifact_result, wvars, dvars>>

DetectArtifacts ==
  /\ spc = "analyzed"
  /\ artifact_result' = detect_artifacts(img)
  /\ spc' = "done"
  /\ UNCHANGED <<img, quality_result, wvars, dvars>>

\* faulty variant: a scorer that carries a running state from call to call
Rescore_remembering ==
  /\ spc = "done"
  /\ quality_result' =
       IF img.readable
         THEN [quality_result EXCEPT !.overall_score = Min(100, @ + 1)]
         ELSE quality_result
  /\ artifact_result' = detect_artifacts(img)
  /\ spc' = "rescored"
  /\ UNCHANGED <<img, wvars, dvars>>

\* the loop of scan_all_images reaches a file with the same pixel statistics:
\* the same scorer and detector instances evaluate the same metrics once more
Rescore ==
  /\ spc = "done"
  /\ quality_result' = analyze_image(img)
  /\ artifact_result' = detect_artifacts(img)
  /\ spc' = "rescored"
  /\ UNCHANGED <<img, wvars, dvars>>

NextScore == AnalyzeImage \/ DetectArtifacts \/ Rescore

SpecScore == InitScore /\ [][NextScore]_vars

(***************************************************************************)
(* ArtifactDetector.scan_all_images on the catalogue of one species        *)
(***************************************************************************)
\* img_name.replace(".webp", "")
ImageType(name) ==
  IF name = "thumb.webp" THEN "thumb"
  ELSE IF name = "image_0.webp" THEN "image_0" ELSE "image_1"

\* quality_result.get("overall_score", 100)
QualityOrDefault(name) == IF analysis[name] >= 0 THEN analysis[name] ELSE 100

\* faulty variant: only the scores at or above the minimum flagged
IsProblematic_minimum(artifact_score, quality_score, minimum) ==
  artifact_score >= minimum

\* "Flag if high artifacts OR (moderate artifacts AND low quality)"
IsProblematic(artifact_score, quality_score, minimum) ==
  artifact_score >= minimum \/ (artifact_score >= 20 /\ quality_score < 70)

\* the files that exist, whose detection is no error and that are problematic,
\* in the order of the loop, then sorted by artifact score, highest first
scan_all_images(minimum) ==
  LET all == [i \in 1..3 |->
                [image_type |-> ImageType(FileOrder[i]),
                 name |-> FileOrder[i],
                 artifact_score |-> detection[FileOrder[i]],
                 quality_score |-> QualityOrDefault(FileOrder[i])]]
      problematic ==
        SelectSeq(all, LAMBDA e :
                    /\ files[e.name].exists
                    /\ e.artifact_score >= 0
                    /\ IsProblematic(e.artifact_score, e.quality_score, minimum))
  IN  SortDescending(problematic,
                     [i \in 1..Len(problematic) |-> problematic[i].artifact_score])

ScanQualities == {0 - 1, 69, 70}
ScanArtifacts == {0 - 1, 19, 20, 30, 55}
ScanMinimums == {20, 30, 50}

InitScan ==
  /\ IdleScorer
  /\ script = "scan"
  /\ dry_run = FALSE
  /\ cache = <<>>
  /\ \E present \in SUBSET FileNames : files = Existence(present)
  /\ analysis \in
       { a \in [FileNames -> ScanQualities] :
           \A name \in FileNames : ~files[name].exists => a[name] = 0 - 1 }
  /\ detection \in
       { d \in [FileNames -> ScanArtifacts] :
           \A name \in FileNames : ~files[name].exists => d[name] = 0 - 1 }
  /\ min_artifact_score \in ScanMinimums
  /\ report = <<>>
  /\ backups = [name \in FileNames |-> NoFile]
  /\ metadata = Metadata(TRUE, 2)
  /\ count = 0
  /\ pending = {0}
  /\ last = NoLast

ScanAllImages ==
  /\ script = "scan"
  /\ 0 \in pending
  /\ report' = scan_all_images(min_artifact_score)
  /\ pending' = pending \ {0}
  /\ UNCHANGED <<script, dry_run, cache, analysis, files, backups, metadata, count,
                 last, detection, min_artifact_score, svars>>

NextScan == ScanAllImages

SpecScan == InitScan /\ [][NextScan]_vars

(***************************************************************************)
(* Properties                                                              *)
(***************************************************************************)
\* the last call, by operation
CalledThumb == last.op = "fix_thumbnail"
CalledPoor == last.op = "replace_poor"
CalledArtifact == last.op = "replace_artifact"
Accepted == last.gate = "pass"

\* A call's return value follows its gate: True needs the gate passed, and in a
\* dry run (nothing to write, so nothing to fail) the two agree.
ReturnFollows(accept) ==
  /\ Accepted <=> accept
  /\ last.ret => accept
  /\ dry_run => (last.ret <=> accept)

\* C1 (as amended): the artifact workflow accepts its best-ranked candidate
\* exactly when best artifact < current artifact - 10, a reduction of more than
\* 10; a reduction of exactly 10 (current 55, best 45) is rejected.
C1_ArtifactGateStrict ==
  CalledArtifact /\ last.found =>
    ReturnFollows(last.best.artifact_score < last.current - 10)

\* C1 as stated: accepted exactly when best artifact <= current artifact - 10.
C1_ArtifactGateInclusive ==
  CalledArtifact /\ last.found =>
    (Accepted <=> last.best.artifact_score <= last.current - 10)

C1_Witness ==
  /\ CalledArtifact /\ last.found
  /\ last.current = 55 /\ last.best.artifact_score = 45
  /\ ~Accepted /\ ~last.ret

\* C2: on every readable image the overall quality score and the artifact score
\* are integers in 0..100, also when all six artifact rules fire (raw sum 105).
C2_ScoreBounds ==
  /\ spc \in {"analyzed", "done"} /\ img.readable =>
       quality_result.overall_score \in 0..100
  /\ spc = "done" /\ img.readable => artifact_result.artifact_score \in 0..100

C2_Witness ==
  /\ spc = "done" /\ img.readable
  /\ Len(artifact_result.flags) = 6
  /\ SumPoints(FiredRules(img)) = 105
  /\ artifact_result.artifact_score = 100

\* what the thumbnail workflow reads: the scored non-thumbnail images, the best
\* of their scores, and the thumbnail's score (0 when it has none); fix_thumbnail
\* changes none of the three
ScoredImages ==
  {name \in {"image_0.webp", "image_1.webp"} : files[name].exists /\ analysis[name] >= 0}
BestImageScore ==
  CHOOSE b \in {analysis[name] : name \in ScoredImages} :
    \A name \in ScoredImages : analysis[name] <= b
CurrentThumbScore ==
  IF analysis["thumb.webp"] >= 0 THEN analysis["thumb.webp"] ELSE 0

C4_PoorGate ==
  CalledPoor /\ last.found =>
    ReturnFollows(last.best.quality_score > last.current)

C4_Witness ==
  /\ CalledPoor /\ last.found /\ ~dry_run
  /\ last.best.quality_score = 40 /\ last.current = 39
  /\ last.ret

\* the key each workflow ranks on
SortKey(c) == IF CalledPoor THEN c.quality_score ELSE c.combined_score

\* C5 (as amended): in both ranking modes the candidates are in descending key
\* order and candidates with equal keys keep their cache order, so among tied
\* candidates the one earliest in the cache ranks first, whatever its timestamp.
C5_TiesKeepCacheOrder ==
  (CalledPoor \/ CalledArtifact) /\ last.found =>
    /\ last.best = last.ranked[1]
    /\ \A i, j \in 1..Len(last.ranked) : i < j =>
         /\ SortKey(last.ranked[i]) >= SortKey(last.ranked[j])
         /\ SortKey(last.ranked[i]) = SortKey(last.ranked[j]) =>
              last.ranked[i].image < last.ranked[j].image

\* C5 as stated: among candidates that tie on the key, the first ranked has the
\* most recent timestamp.
C5_TiesByRecency ==
  (CalledPoor \/ CalledArtifact) /\ last.found =>
    \A i \in 1..Len(last.ranked) :
      SortKey(last.ranked[i]) = SortKey(last.best) =>
        last.best.created >= last.ranked[i].created

C5_Witness ==
  /\ CalledPoor /\ last.found /\ Len(last.ranked) >= 2
  /\ SortKey(last.ranked[2]) = SortKey(last.best)
  /\ last.ranked[2].created > last.best.created

\* the cache rows the artifact workflow can score
ArtifactScorable ==
  {i \in 1..Min(Len(cache), ARTIFACT_WINDOW) : cache[i].ok}

\* C6: the artifact workflow's best candidate is a scored cache row, its
\* combined score is (100 - artifact) + quality, in 0..200, and no scored row
\* has a greater one.
C6_CombinedRanking ==
  CalledArtifact /\ last.found =>
    /\ \E i \in ArtifactScorable :
         /\ cache[i].image = last.best.image
         /\ cache[i].quality_score = last.best.quality_score
         /\ cache[i].artifact_score = last.best.artifact_score
    /\ last.best.combined_score
         = (100 - last.best.artifact_score) + last.best.quality_score
    /\ \A k \in 1..Len(last.ranked) : last.ranked[k].combined_score \in 0..200
    /\ \A i \in ArtifactScorable :
         (100 - cache[i].artifact_score) + cache[i].quality_score
           <= last.best.combined_score

C6_Witness ==
  /\ CalledArtifact /\ Len(last.ranked) = 2
  /\ last.best.quality_score = 80 /\ last.best.artifact_score = 10
  /\ last.best.combined_score = 170
  /\ last.best.image = 2
  /\ last.ranked[2].combined_score = 95

\* C7 (as amended): the thumbnail and poor-image workflows report best quality
\* minus current quality; the artifact workflow reports current artifact minus
\* best artifact (positive when artifacts go down), and beside it best quality
\* minus current quality.
C7_Improvement ==
  /\ CalledThumb /\ last.found =>
       last.improvement = BestImageScore - CurrentThumbScore
  /\ CalledPoor /\ last.found =>
       last.improvement = last.best.quality_score - last.current
  /\ CalledArtifact /\ last.found =>
       /\ last.improvement = last.current - last.best.artifact_score
       /\ last.improvement_quality = last.best.quality_score - last.current_quality

\* C7 as stated: in every workflow the improvement is the best candidate's gated
\* score minus the current image's gated score.
C7_ImprovementBestMinusCurrent ==
  /\ CalledThumb /\ last.found =>
       last.improvement = BestImageScore - CurrentThumbScore
  /\ CalledPoor /\ last.found =>
       last.improvement = last.best.quality_score - last.current
  /\ CalledArtifact /\ last.found =>
       last.improvement = last.best.artifact_score - last.current

C7_Witness ==
  /\ CalledArtifact /\ last.found /\ Accepted
  /\ last.current = 56 /\ last.best.artifact_score = 45
  /\ last.improvement = 11

\* C8 (as amended): find_best_image reports a candidate exactly when some scored
\* non-thumbnail image has a score above 0; the thumbnail's score is not
\* compared, so the reported improvement can be zero or negative.
C8_CandidateReported ==
  CalledThumb => (last.found <=> \E name \in ScoredImages : analysis[name] > 0)

\* C8 as stated: a candidate is reported exactly when some scored non-thumbnail
\* image scores strictly above the thumbnail.
C8_CandidateAboveThumb ==
  CalledThumb =>
    (last.found <=> \E name \in ScoredImages : analysis[name] > CurrentThumbScore)

C8_Witness ==
  /\ CalledThumb /\ last.found
  /\ analysis["thumb.webp"] = 60
  /\ BestImageScore = 50
  /\ last.improvement = -10
  /\ ~Accepted

\* C9 (as amended): when some scored non-thumbnail image has a score above 0,
\* find_best_image returns a scored non-thumbnail image whose score is the
\* greatest of them; when all of them score 0 it returns nothing; it never
\* returns the thumbnail.
C9_BestImage ==
  CalledThumb =>
    /\ (\E name \in ScoredImages : analysis[name] > 0) =>
         /\ last.found
         /\ last.best_name \in ScoredImages
         /\ last.best.quality_score = analysis[last.best_name]
         /\ last.best.quality_score = BestImageScore
    /\ (\A name \in ScoredImages : analysis[name] = 0) => ~last.found
    /\ last.best_name # "thumb.webp"

\* C9 as stated: whenever a non-thumbnail image was scored, also with score 0,
\* the greatest of them is returned.
C9_BestImageFromZero ==
  CalledThumb /\ ScoredImages # {} =>
    /\ last.found
    /\ last.best_name \in ScoredImages
    /\ last.best.quality_score = BestImageScore

C9_Witness ==
  /\ CalledThumb /\ last.found
  /\ Cardinality(ScoredImages) = 2
  /\ analysis["thumb.webp"] = 60
  /\ last.best_name = "image_1.webp"
  /\ last.best.quality_score = 70
  /\ analysis["image_0.webp"] = 0

\* C10: in each of the three workflows a call whose best candidate fails the
\* gate returns False and leaves the files, the backups, the metadata and the
\* counter as they were.
C10_RejectChangesNothing ==
  [][pending' # pending /\ last'.gate = "reject" =>
       /\ ~last'.ret
       /\ UNCHANGED <<files, backups, metadata, count>>]_vars

C10_Witness ==
  /\ CalledArtifact /\ last.found /\ last.gate = "reject" /\ ~dry_run
  /\ ~last.ret /\ count = 0
  /\ metadata.loadable /\ metadata.last_updated = 0
  /\ pending = {}

\* the best candidate of the last artifact call with its quality score set to q,
\* and the ranking the workflow computes from the cache with that one change
WithQuality(c, q) ==
  [c EXCEPT !.quality_score = q,
            !.combined_score = (100 - c.artifact_score) + q]
RerankedWithQuality(q) ==
  LET scored == ArtifactScored(cache)
  IN  ArtifactRanked([i \in 1..Len(scored) |->
                        IF scored[i].image = last.best.image
                          THEN WithQuality(scored[i], q) ELSE scored[i]])
OtherQualities == {0, 30, 40, 45, 80, 100}

\* C11: the artifact workflow's decision is a function of the best candidate's
\* artifact score and the current artifact score alone: the gate evaluated on the
\* best candidate with its quality erased gives the decision taken, whatever the
\* current image's quality, and giving the best candidate any other quality
\* under which it still ranks first leaves the decision as it was.
C11_QualityNotAGate ==
  CalledArtifact /\ last.found =>
    /\ Accepted <=> ArtifactGate(WithQuality(last.best, 0), last.current)
    /\ \A q \in OtherQualities :
         LET reranked == RerankedWithQuality(q)
         IN  Head(reranked).image = last.best.image =>
               (ArtifactGate(Head(reranked), last.current) <=> Accepted)

\* a candidate of lower quality than the current image is accepted and written
C11_Witness ==
  /\ CalledArtifact /\ last.found /\ Accepted /\ last.ret /\ ~dry_run
  /\ last.best.quality_score = 40 /\ last.current_quality = 90
  /\ last.improvement_quality < 0
  /\ Len(last.ranked) = 2
  /\ \E q \in OtherQualities : Head(RerankedWithQuality(q)).image # last.best.image

\* the scorer has scored a readable image; the detector has scored it too
Scored == spc \in {"analyzed", "done", "rescored"} /\ img.readable
Detected == spc \in {"done", "rescored"} /\ img.readable

\* the image with another white-pixel ratio and every other metric as it is
WithWhite(w) == [img EXCEPT !.white_ratio = w]
QualityAtWhite(w) == analyze_image(WithWhite(w)).overall_score
ArtifactAtWhite(w) == detect_artifacts(WithWhite(w)).artifact_score

\* C12: for metric sets that differ only in white-pixel ratio, the rounded overall
\* quality score never increases as the white ratio increases.
C12_QualityWhiteMonotone ==
  Scored =>
    \A w \in WhiteVals :
      /\ img.white_ratio <= w => quality_result.overall_score >= QualityAtWhite(w)
      /\ w <= img.white_ratio => QualityAtWhite(w) >= quality_result.overall_score

\* a step of white ratio the rounding hides, and one that lowers the score
C12_Witness ==
  /\ Scored /\ img.white_ratio = 99
  /\ QualityAtWhite(100) = quality_result.overall_score
  /\ QualityAtWhite(1000) < quality_result.overall_score
  /\ QualityAtWhite(500) = QualityAtWhite(1000)

\* C13: for metric sets that differ only in white ratio, the artifact score never
\* decreases as the white ratio increases (0, then +15 above 0.15, then +30 above
\* 0.25, capped at 100).
C13_ArtifactWhiteMonotone ==
  Detected =>
    \A w \in WhiteVals :
      /\ img.white_ratio <= w => artifact_result.artifact_score <= ArtifactAtWhite(w)
      /\ w <= img.white_ratio => ArtifactAtWhite(w) <= artifact_result.artifact_score

\* the three tiers, and the cap taking part of the high tier (90 + 15 = 105)
C13_Witness ==
  /\ Detected /\ img.white_ratio = 151
  /\ artifact_result.artifact_score = 90
  /\ ArtifactAtWhite(150) = 75
  /\ ArtifactAtWhite(250) = 90
  /\ ArtifactAtWhite(251) = 100

Ind(b) == IF b THEN 1 ELSE 0

\* C14: the artifact score is the sum of the points of the rules that fire, capped
\* at 100: 30 for white > 0.25, 15 for 0.15 < white <= 0.25, 20 for extreme white
\* > 0.1, 20 for low saturation > 0.4, 15 for more than 20 lines, 10 for uniform
\* ratio > 0.5, 10 for colour variance < 500; every comparison is strict.
C14_ArtifactSum ==
  Detected =>
    LET raw ==   30 * Ind(img.white_ratio > 250)
               + 15 * Ind(150 < img.white_ratio /\ img.white_ratio <= 250)
               + 20 * Ind(img.extreme_white_ratio > 100)
               + 20 * Ind(img.low_sat_ratio > 400)
               + 15 * Ind(img.line_count > 20)
               + 10 * Ind(img.uniform_ratio > 500)
               + 10 * Ind(img.color_variance < 500)
    IN  artifact_result.artifact_score = IF raw > 100 THEN 100 ELSE raw

\* every metric exactly at its threshold: no rule fires
C14_Witness ==
  /\ Detected
  /\ img.white_ratio = 150 /\ img.extreme_white_ratio = 100
  /\ img.low_sat_ratio = 400 /\ img.line_count = 20
  /\ img.uniform_ratio = 500 /\ img.color_variance = 500
  /\ artifact_result.artifact_score = 0

FlagIf(b, flag) == IF b THEN <<flag>> ELSE <<>>
WhiteFlags == {"HIGH white regions", "MODERATE white regions"}
NonWhite(flags) == SelectSeq(flags, LAMBDA f : f \notin WhiteFlags)

\* C15: the flags are one per fired rule, in the order white regions, extreme
\* brightness, low saturation, straight lines, uniform background, limited
\* colours; at most one of them is a white-region flag; the list is empty exactly
\* when the artifact score is 0; and the flags of the other rules are the same
\* whatever the white ratio is.
C15_FlagsMirrorRules ==
  Detected =>
    /\ artifact_result.flags =
            FlagIf(img.white_ratio > 250, "HIGH white regions")
         \o FlagIf(150 < img.white_ratio /\ img.white_ratio <= 250,
                   "MODERATE white regions")
         \o FlagIf(img.extreme_white_ratio > 100, "Extreme brightness")
         \o FlagIf(img.low_sat_ratio > 400, "Low saturation")
         \o FlagIf(img.line_count > 20, "Many straight lines (ruler/paper?)")
         \o FlagIf(img.uniform_ratio > 500, "Uniform background")
         \o FlagIf(img.color_variance < 500, "Limited colors")
    /\ Cardinality({i \in 1..Len(artifact_result.flags) :
                      artifact_result.flags[i] \in WhiteFlags}) <= 1
    /\ artifact_result.flags = <<>> <=> artifact_result.artifact_score = 0
    /\ \A w \in WhiteVals :
         NonWhite(detect_artifacts(WithWhite(w)).flags)
           = NonWhite(artifact_result.flags)

C15_Witness ==
  /\ Detected /\ img.white_ratio = 251
  /\ artifact_result.flags =
       <<"HIGH white regions", "Low saturation", "Limited colors">>
  /\ detect_artifacts(WithWhite(250)).flags =
       <<"MODERATE white regions", "Low saturation", "Limited colors">>
  /\ detect_artifacts(WithWhite(0)).flags = <<"Low saturation", "Limited colors">>

\* The formula of C16 in exact arithmetic.  Each sub-score is held in 210ths:
\* sharpness/1000*100 is 21*s/210, brightness/40*100 is 525*b/210,
\* contrast/70*100 is 300*c/210, variance/3000*100 is 7*v/210 and ratio*200, the
\* ratio in thousandths, is 42*w/210.  The weights are held in 200ths.
FormulaSharpness == IF 21 * img.blur > 21000 THEN 21000 ELSE 21 * img.blur
FormulaBrightness ==
  LET b == img.mean_brightness
  IN  IF 40 <= b /\ b <= 215 THEN 21000
      ELSE IF b < 40 THEN 525 * b
      ELSE IF 21000 - 525 * (b - 215) < 0 THEN 0 ELSE 21000 - 525 * (b - 215)
FormulaContrast == IF 300 * img.contrast > 21000 THEN 21000 ELSE 300 * img.contrast
FormulaColor ==
  IF 7 * img.color_variance > 21000 THEN 21000 ELSE 7 * img.color_variance
FormulaWhite ==
  IF 21000 - 42 * img.white_ratio < 0 THEN 0 ELSE 21000 - 42 * img.white_ratio
FormulaSum ==
    70 * FormulaSharpness + 25 * FormulaBrightness + 25 * FormulaContrast
  + 50 * FormulaColor + 30 * FormulaWhite
FormulaUnit == 200 * 210

\* r is the integer nearest to n / d, the even one of the two when n / d is
\* halfway between them
IsRounded(r, n, d) ==
  LET twice == IF n >= r * d THEN 2 * (n - r * d) ELSE 2 * (r * d - n)
  IN  twice < d \/ (twice = d /\ r % 2 = 0)

\* C16: the overall quality score is the weighted sum 0.35 sharpness + 0.25 *
\* (0.5 brightness + 0.5 contrast) + 0.25 colour + 0.15 white of the normalised
\* sub-scores, rounded to the nearest integer; every sub-score lies in 0..100
\* before weighting and the weights sum to 1.
C16_QualityFormula ==
  Scored =>
    /\ IsRounded(quality_result.overall_score, FormulaSum, FormulaUnit)
    /\ \A sub \in {blur_score(quality_result.metrics),
                   brightness_score(quality_result.metrics),
                   contrast_score(quality_result.metrics),
                   color_score(quality_result.metrics),
                   white_score(quality_result.metrics)} :
         0 <= sub /\ sub <= 100 * Scale
    /\ 70 + 25 + 25 + 50 + 30 = 200

\* a weighted sum exactly halfway between two integers, rounded up to the even
\* one, on an image over-bright, over-sharp and over-coloured
C16_Witness ==
  /\ Scored
  /\ 2 * (FormulaSum % FormulaUnit) = FormulaUnit
  /\ quality_result.overall_score = (FormulaSum \div FormulaUnit) + 1
  /\ img.mean_brightness > 215
  /\ img.blur > 1000 /\ img.color_variance > 3000

\* C17: for every image whose white-pixel ratio is above 0.25 the white-region
\* rating is "poor", the artifact score is at least 30 and the first flag is the
\* HIGH white regions flag; and from a white ratio of 0.5 on the white sub-score
\* of the overall quality is exactly 0.
C17_HighWhite ==
  /\ Scored /\ img.white_ratio > 250 =>
       quality_result.metrics.white_regions.rating = "poor"
  /\ Detected /\ img.white_ratio > 250 =>
       /\ artifact_result.artifact_score >= 30
       /\ artifact_result.flags # <<>>
       /\ artifact_result.flags[1] = "HIGH white regions"
  /\ Scored /\ img.white_ratio >= 500 => white_score(quality_result.metrics) = 0

\* the all-white image: ratio 1.0, no colour, no contrast
C17_Witness ==
  /\ Detected /\ img.white_ratio = 1000 /\ img.extreme_white_ratio = 1000
  /\ img.color_variance = 0
  /\ quality_result.metrics.white_regions.rating = "poor"
  /\ white_score(quality_result.metrics) = 0
  /\ artifact_result.artifact_score >= 60

\* the cache rows inside the workflow's window whose evaluation succeeds, and
\* the key the workflow ranks a cache row on
EvaluationWindow == IF CalledPoor THEN POOR_WINDOW ELSE ARTIFACT_WINDOW
Evaluated == {i \in 1..Min(Len(cache), EvaluationWindow) : cache[i].ok}
RowKey(row) ==
  IF CalledPoor THEN row.quality_score
  ELSE (100 - row.artifact_score) + row.quality_score

\* C18: in both replacement workflows a candidate whose evaluation fails does
\* not stop the loop: the ranked set is exactly the rows of the window that
\* could be scored, the failed ones are absent, the best is the best of the
\* scored ones, and the call gives up only when no row could be scored.
C18_SiblingIsolation ==
  (CalledPoor \/ CalledArtifact) /\ metadata.loadable =>
    /\ {last.ranked[k].image : k \in 1..Len(last.ranked)} = Evaluated
    /\ Len(last.ranked) = Cardinality(Evaluated)
    /\ last.found <=> Evaluated # {}
    /\ last.found =>
         /\ last.best.image \in Evaluated
         /\ \A i \in Evaluated : RowKey(cache[i]) <= SortKey(last.best)
    /\ ~last.found => last.gate = "none" /\ ~last.ret

\* the first candidate fails, the second is scored, wins and is written
C18_Witness ==
  /\ CalledPoor /\ metadata.loadable /\ ~dry_run
  /\ Len(cache) = 2 /\ ~cache[1].ok /\ cache[2].ok
  /\ Len(last.ranked) = 1 /\ last.best.image = 2
  /\ Accepted /\ last.ret
  /\ files[ImageName(last.idx)].src = 2

\* C19: when the image cannot be read, analyze_image returns a result with an
\* "error" field and no "overall_score", and detect_artifacts one with an "error"
\* field and no "artifact_score"; the caller holds that error value as soon as
\* the one call has returned.
C19_DecodeFailure ==
  /\ spc \in {"analyzed", "done", "rescored"} /\ ~img.readable =>
       /\ "error" \in DOMAIN quality_result
       /\ "overall_score" \notin DOMAIN quality_result
  /\ spc \in {"done", "rescored"} /\ ~img.readable =>
       /\ "error" \in DOMAIN artifact_result
       /\ "artifact_score" \notin DOMAIN artifact_result

C19_Witness ==
  /\ spc = "done" /\ ~img.readable
  /\ quality_result.error = "Failed to load image"
  /\ artifact_result.error = "Failed to load image"

Bucket4(x, t3, t2, t1) ==
  IF x > t3 THEN "excellent" ELSE IF x > t2 THEN "good"
  ELSE IF x > t1 THEN "fair" ELSE "poor"

\* C21: each metric has exactly the rating of the strict thresholds - sharpness
\* above 500 / 200 / 100, contrast above 50 / 30, colour variance above 2000 /
\* 1000 / 500, white ratio below 0.1 / 0.25, brightness inside 40..215 - and the
\* brightness rating is "good" exactly when the brightness sub-score is 100.
C21_RatingBuckets ==
  Scored =>
    LET m == quality_result.metrics
    IN  /\ m.blur.rating = Bucket4(img.blur, 500, 200, 100)
        /\ m.brightness.contrast_rating =
             (IF img.contrast > 50 THEN "excellent"
              ELSE IF img.contrast > 30 THEN "good" ELSE "poor")
        /\ m.color.rating = Bucket4(img.color_variance, 2000, 1000, 500)
        /\ m.white_regions.rating =
             (IF img.white_ratio < 100 THEN "good"
              ELSE IF img.white_ratio < 250 THEN "fair" ELSE "poor")
        /\ m.brightness.brightness_rating =
             (IF img.mean_brightness < 40 THEN "too_dark"
              ELSE IF img.mean_brightness > 215 THEN "too_bright" ELSE "good")
        /\ m.brightness.brightness_rating = "good"
             <=> brightness_score(m) = 100 * Scale

\* every metric on a threshold, the brightness one level above its range
C21_Witness ==
  /\ Scored
  /\ img.blur = 500 /\ quality_result.metrics.blur.rating = "good"
  /\ img.contrast = 50 /\ quality_result.metrics.brightness.contrast_rating = "good"
  /\ img.color_variance = 500 /\ quality_result.metrics.color.rating = "poor"
  /\ img.white_ratio = 250 /\ quality_result.metrics.white_regions.rating = "poor"
  /\ img.mean_brightness = 216
  /\ quality_result.metrics.brightness.brightness_rating = "too_bright"
  /\ 2 * brightness_score(quality_result.metrics) = 195 * Scale

\* the scan has returned
Scanned == script = "scan" /\ pending = {}

\* the catalogued files scan_all_images could score
Detectable == {name \in FileNames : files[name].exists /\ detection[name] >= 0}

C23_NoQualifierMissed ==
  CalledArtifact /\ last.found =>
    ((\E k \in 1..Len(last.ranked) :
        last.ranked[k].artifact_score < last.current - 10)
       => Accepted /\ (dry_run => last.ret))

\* current 56: row 2 (quality 40, artifacts 45) is below 46, but row 1 (quality
\* 45, artifacts 50) has the same combined score 95, stays first and is the only
\* candidate the gate looks at: the call returns False
C23_Witness ==
  /\ CalledArtifact /\ last.current = 56 /\ Len(last.ranked) = 2
  /\ last.best.image = 1 /\ last.best.artifact_score = 50
  /\ last.ranked[2].artifact_score = 45
  /\ last.ranked[2].combined_score = last.best.combined_score
  /\ ~Accepted /\ ~last.ret

\* the candidate list with two of its entries exchanged
Swap(seq, i, j) ==
  [k \in 1..Len(seq) |-> IF k = i THEN seq[j] ELSE IF k = j THEN seq[i] ELSE seq[k]]

\* C24 as stated: the artifact workflow's accept/reject outcome is the same for
\* every order of the scored candidates; exchanges of two candidates generate
\* every order, so the outcome is the same after each exchange.
C24_OrderIndependent ==
  CalledArtifact /\ last.found =>
    \A i, j \in 1..Len(last.ranked) :
      ArtifactGate(Head(ArtifactRanked(Swap(ArtifactScored(cache), i, j))),
                   last.current) <=> Accepted

\* current 56 and the candidates (quality 40, artifacts 45), (quality 45,
\* artifacts 50), tied on combined score 95: accepted in this cache order,
\* rejected in the other
C24_Witness ==
  /\ CalledArtifact /\ last.current = 56 /\ Len(last.ranked) = 2
  /\ last.best.image = 1 /\ last.best.artifact_score = 45
  /\ last.ranked[2].artifact_score = 50
  /\ last.ranked[2].combined_score = last.best.combined_score
  /\ Accepted
  /\ ~ArtifactGate(Head(ArtifactRanked(Swap(ArtifactScored(cache), 1, 2))),
                   last.current)

\* the rows among the first 10 of the cache whose download and scoring succeed
PoorWindow == {i \in 1..Len(cache) : i <= 10 /\ cache[i].ok}

\* C25: the poor-image workflow accepts exactly when some scored candidate among
\* the first 10 cache records has a score above the current one; no record
\* behind the tenth is evaluated or chosen; the candidate it accepts (and
\* writes) has the greatest score of those scored.
C25_PoorWindow ==
  CalledPoor =>
    /\ metadata.loadable =>
         ReturnFollows(\E i \in PoorWindow : cache[i].quality_score > last.current)
    /\ ~metadata.loadable => ~Accepted /\ ~last.ret
    /\ \A k \in 1..Len(last.ranked) : last.ranked[k].image \in PoorWindow
    /\ Accepted =>
         /\ last.best.image \in PoorWindow
         /\ last.best.quality_score = cache[last.best.image].quality_score
         /\ \A i \in PoorWindow : cache[i].quality_score <= last.best.quality_score
    /\ last.ret /\ ~dry_run => files[ImageName(last.idx)].src = last.best.image

\* eleven records: the first ten score 40, the eleventh would score 80.  With
\* current score 39 the first record is written, not the eleventh
C25_Witness ==
  /\ CalledPoor /\ ~dry_run /\ Len(cache) = 11
  /\ cache[11].ok /\ cache[11].quality_score = 80
  /\ last.current = 39 /\ last.best.quality_score = 40
  /\ Len(last.ranked) = 10
  /\ Accepted /\ last.ret
  /\ files[ImageName(last.idx)].src = 1

\* each image file of the species matches its entry of metadata.json
Consistent ==
  /\ metadata.loadable
  /\ \A idx \in {0, 1} :
       files[ImageName(idx)].exists =>
         /\ idx < Len(metadata.images)
         /\ metadata.images[idx + 1].source_url = files[ImageName(idx)].src
         /\ metadata.images[idx + 1].sha256 = calculate_sha256(files[ImageName(idx)])

\* C26 as stated: a find_and_replace_image call of either replacement workflow,
\* not in a dry run, made where the image files match their metadata entries
\* leaves them matching, and bumps replaced_count only when it also updated the
\* image's metadata entry.
C26_MetadataConsistency ==
  [][pending' # pending /\ script \in {"poor", "artifact"} /\ ~dry_run /\ Consistent =>
       /\ Consistent'
       /\ count' > count =>
            /\ last'.idx < Len(metadata'.images)
            /\ metadata'.images[last'.idx + 1].source_url = last'.best.image]_vars

\* image_0.webp now holds cache row 1 and the counter says one replacement, but
\* metadata.json still describes the original file
C26_Witness ==
  /\ CalledPoor /\ ~dry_run /\ last.idx = 0 /\ last.ret /\ count = 1
  /\ files["image_0.webp"].src = 1
  /\ metadata.loadable /\ Len(metadata.images) = 2
  /\ metadata.images[1] = OrigEntry(0)
  /\ ~Consistent

\* the file a call writes
Target(call) == IF call.op = "fix_thumbnail" THEN "thumb.webp" ELSE ImageName(call.idx)

\* C27: in all three workflows, when the gate passes, the run is not a dry run
\* and the writer returns no data (the call returns False), a target that
\* existed before the call has its content from before the call, no other file
\* changes, metadata is not modified and the counter is not incremented.
C27_FailedWriteRestores ==
  [][pending' # pending /\ ~dry_run /\ last'.gate = "pass" /\ ~last'.ret
       /\ files[Target(last')].exists =>
       /\ files'[Target(last')] = files[Target(last')]
       /\ files' = files
       /\ metadata' = metadata
       /\ count' = count]_vars

\* the artifact workflow passed the gate, backed image_0.webp up, failed to
\* write, and image_0.webp holds the original again
C27_Witness ==
  /\ CalledArtifact /\ ~dry_run /\ Accepted /\ ~last.ret /\ last.idx = 0
  /\ backups["image_0.webp"] = OrigFile("image_0.webp")
  /\ files["image_0.webp"] = OrigFile("image_0.webp")
  /\ metadata = Metadata(TRUE, 2) /\ count = 0

\* C28 as stated: whatever calls have returned (accepted, rejected by the gate,
\* or failed while writing), no "<name>.webp.backup" file exists.
C28_NoBackupLeft == \A name \in FileNames : ~backups[name].exists

\* fix_thumbnail passed the gate and create_thumbnail returned no data: the
\* thumbnail was restored and thumb.webp.backup is still there
C28_Witness ==
  /\ CalledThumb /\ ~dry_run /\ Accepted /\ ~last.ret /\ pending = {}
  /\ files["thumb.webp"] = OrigFile("thumb.webp")
  /\ backups["thumb.webp"] = OrigFile("thumb.webp")

\* C29: in a dry run no step of any of the three workflows (run returning,
\* fix_thumbnail, find_and_replace_image) creates, modifies or deletes an image
\* file, a backup or metadata.json, and the counter stays 0; a call whose
\* candidate passes the gate still returns True.
C29_DryRunChangesNothing ==
  [][dry_run =>
       /\ UNCHANGED <<files, backups, metadata>>
       /\ count = 0 /\ count' = 0
       /\ last'.gate = "pass" => last'.ret]_vars

\* a dry run in which both images found a candidate that passes the gate: both
\* calls returned True and every file is the original
C29_Witness ==
  /\ dry_run /\ CalledPoor /\ pending = {} /\ Accepted /\ last.ret
  /\ files = Existence(FileNames)
  /\ backups = [name \in FileNames |-> NoFile]
  /\ metadata = Metadata(TRUE, 2) /\ count = 0

\* the image slots that hold a cache record's image
Replaced == {idx \in {0, 1} : files[ImageName(idx)].src > 0}

\* C30 as stated: when a replacement run has replaced both image_0 and image_1
\* of the species, the two come from different cache records.
C30_DistinctSources ==
  script \in {"poor", "artifact"} /\ Replaced = {0, 1} =>
    files["image_0.webp"].src # files["image_1.webp"].src

\* both calls of a poor-image run accepted the same best record: image_0.webp
\* and image_1.webp hold the image of cache row 1, and metadata.json names the
\* same source twice
C30_Witness ==
  /\ CalledPoor /\ ~dry_run /\ pending = {} /\ count = 2
  /\ files["image_0.webp"].src = 1 /\ files["image_1.webp"].src = 1
  /\ metadata.loadable /\ Len(metadata.images) = 2
  /\ metadata.images[1].source_url = metadata.images[2].source_url

====
